---- MODULE Spec2Model ----
(***************************************************************************)
(* A model of the personal-finance dashboard of src/app.py: the session    *)
(* state held in SessionState.financial_data, the handlers of the budget,  *)
(* balance-sheet, savings-goal and investment forms, the two calculators   *)
(* calculate_savings_metrics and calculate_net_worth, the news cache of    *)
(* get_news, the market-data cache of get_market_data, the SIP formula of  *)
(* the learning page, and the goal forecaster of the specification.        *)
(*                                                                         *)
(* Currency amounts are integers.  A quotient the code computes in         *)
(* floating point is kept as an exact fraction <<numerator, denominator>>. *)
(* A text typed into a date field is a sequence of numbers: <<y, m, d>>    *)
(* stands for the text "y-m-d", <<>> for the empty text, and a sequence of *)
(* another length for a text that has not the three fields of a date.      *)
(***************************************************************************)
EXTENDS Integers, Sequences, FiniteSets, TLC

VARIABLES
    income,       \* financial_data['income']
    expenses,     \* financial_data['expenses']
    savings,      \* financial_data['savings']
    assets,       \* financial_data['assets']: label -> amount
    liabilities,  \* financial_data['liabilities']: label -> amount
    goals,        \* financial_data['goals']: sequence of goal records
    investments,  \* financial_data['investments']: sequence of records
    today,        \* days elapsed since the session started (datetime.now())
    ret,          \* the last call of a function and what it returned
    news_cache,         \* SessionState.news_cache
    news_cache_time,    \* SessionState.news_cache_time
    market_data_cache,  \* SessionState.market_data_cache: ticker -> data
    clock,              \* time.time(), in seconds
    chat_history,       \* st.session_state.chat_history
    API_ENABLED         \* whether GEMINI_API_KEY was found at start

vars == <<income, expenses, savings, assets, liabilities, goals, investments, today, ret,
          news_cache, news_cache_time, market_data_cache, clock, chat_history, API_ENABLED>>

session == <<income, expenses, savings, assets, liabilities, goals, investments>>

\* The caches of the session and the clock they are read against.
feeds == <<news_cache, news_cache_time, market_data_cache, clock>>

\* The conversation with the advisor and the switch it depends on.
chat == <<chat_history, API_ENABLED>>

-----------------------------------------------------------------------------
(* Bounds of the exploration.                                              *)

MaxGoals == 3
MaxInvestments == 3
MaxDay == 1
MaxDeposits == 2

-----------------------------------------------------------------------------
(* Program constants.                                                      *)

DEFAULT_INCOME == 100000
DEFAULT_EXPENSES == 70000
DEFAULT_SAVINGS == 30000

DEFAULT_ASSETS ==
    [k \in {"savings_account", "investments", "property", "vehicles"} |->
        CASE k = "savings_account" -> 200000
          [] k = "investments" -> 300000
          [] k = "property" -> 5000000
          [] k = "vehicles" -> 500000]

DEFAULT_LIABILITIES ==
    [k \in {"education_loan", "car_loan", "credit_cards"} |->
        CASE k = "education_loan" -> 2500000
          [] k = "car_loan" -> 300000
          [] k = "credit_cards" -> 50000]

-----------------------------------------------------------------------------
(* Python values handed to the calculators.  t is the kind of the value:   *)
(* "num" a float or int, "numstr" a str that float() parses to n, "text"   *)
(* any other str, "none" None.                                             *)

Num(n) == [t |-> "num", n |-> n]
NumStr(n) == [t |-> "numstr", n |-> n]
Text == [t |-> "text", n |-> 0]
None == [t |-> "none", n |-> 0]

IsNum(x) == x.t = "num"

\* float(x): the number, or an exception.
ToFloat(x) ==
    IF x.t \in {"num", "numstr"} THEN [ok |-> TRUE, n |-> x.n]
    ELSE [ok |-> FALSE, n |-> 0]

\* x > 0 as Python evaluates it: a str or None against an int raises TypeError.
GreaterThanZero(x) ==
    IF x.t = "num" THEN [ok |-> TRUE, b |-> x.n > 0]
    ELSE [ok |-> FALSE, b |-> FALSE]

\* (s / i) * 100 as an exact fraction; ZeroDivisionError when i is 0.
Divide100(s, i) ==
    IF i = 0 THEN [ok |-> FALSE, q |-> <<0, 1>>]
    ELSE [ok |-> TRUE, q |-> <<s * 100, i>>]

\* The outcome of a call of calculate_savings_metrics that returns (s, r).
SavingsReturn(s, r) == [kind |-> "return", savings |-> s, savings_rate |-> r]

\* Variants of calculate_savings_metrics with a slip in them.
calculate_savings_metrics_clamped(inc, exp) ==
    LET fi == ToFloat(inc)
        fe == ToFloat(exp)
        gt == GreaterThanZero(inc)
        q == IF gt.b THEN Divide100(fi.n - fe.n, fi.n) ELSE [ok |-> TRUE, q |-> <<0, 1>>]
    IN  IF ~fi.ok \/ ~fe.ok \/ ~gt.ok \/ ~q.ok THEN SavingsReturn(0, <<0, 1>>)
        ELSE IF fe.n > fi.n THEN SavingsReturn(0, <<0, 1>>)
        ELSE SavingsReturn(fi.n - fe.n, q.q)

calculate_savings_metrics_unguarded(inc, exp) ==
    LET fi == ToFloat(inc)
        fe == ToFloat(exp)
        q == Divide100(fi.n - fe.n, fi.n)
    IN  IF ~fi.ok \/ ~fe.ok \/ ~q.ok THEN SavingsReturn(0, <<0, 1>>)
        ELSE SavingsReturn(fi.n - fe.n, q.q)

calculate_savings_metrics_stored(inc, exp) ==
    LET fi == ToFloat(inc)
        fe == ToFloat(exp)
        gt == GreaterThanZero(inc)
        q == IF gt.b THEN Divide100(savings, fi.n) ELSE [ok |-> TRUE, q |-> <<0, 1>>]
    IN  IF ~fi.ok \/ ~fe.ok \/ ~gt.ok \/ ~q.ok THEN SavingsReturn(0, <<0, 1>>)
        ELSE SavingsReturn(savings, q.q)

\* calculate_savings_metrics(income, expenses): the try body evaluates
\* float(income) - float(expenses), then the test income > 0, then the
\* quotient when the test holds and 0.0 otherwise; whatever the body raises
\* is caught and (0.0, 0.0) is returned.
calculate_savings_metrics(inc, exp) ==
    LET fi == ToFloat(inc)
        fe == ToFloat(exp)
        gt == GreaterThanZero(inc)
        q == IF gt.b THEN Divide100(fi.n - fe.n, fi.n) ELSE [ok |-> TRUE, q |-> <<0, 1>>]
    IN  IF ~fi.ok \/ ~fe.ok \/ ~gt.ok \/ ~q.ok THEN SavingsReturn(0, <<0, 1>>)
        ELSE SavingsReturn(fi.n - fe.n, q.q)

\* sum(d.values()): the total, or an exception at the first value that is
\* no number (0 + "x" and 0 + None raise TypeError).
RECURSIVE SumValues(_)
SumValues(d) ==
    IF DOMAIN d = {} THEN [ok |-> TRUE, n |-> 0]
    ELSE LET k == CHOOSE x \in DOMAIN d : TRUE
             rest == SumValues([x \in DOMAIN d \ {k} |-> d[x]])
         IN  IF ~IsNum(d[k]) \/ ~rest.ok THEN [ok |-> FALSE, n |-> 0]
             ELSE [ok |-> TRUE, n |-> rest.n + d[k].n]

\* The outcome of a call of calculate_net_worth that returns n.
NetWorthReturn(n) == [kind |-> "return", v |-> n]

\* Variants of calculate_net_worth with a slip in them.
calculate_net_worth_added(a, l) ==
    LET ta == SumValues(a)
        tl == SumValues(l)
    IN  IF ~ta.ok \/ ~tl.ok THEN NetWorthReturn(0)
        ELSE NetWorthReturn(ta.n + tl.n)

calculate_net_worth_uncaught(a, l) ==
    LET ta == SumValues(a)
        tl == SumValues(l)
    IN  IF ~ta.ok \/ ~tl.ok THEN [kind |-> "raise", v |-> 0]
        ELSE NetWorthReturn(ta.n - tl.n)

\* calculate_net_worth(assets, liabilities): both sums inside a try whose
\* except returns 0.0.
calculate_net_worth(a, l) ==
    LET ta == SumValues(a)
        tl == SumValues(l)
    IN  IF ~ta.ok \/ ~tl.ok THEN NetWorthReturn(0)
        ELSE NetWorthReturn(ta.n - tl.n)

\* A stored map of amounts as the Python dict of floats it is.
AsValues(d) == [k \in DOMAIN d |-> Num(d[k])]

-----------------------------------------------------------------------------
(* Calendar.                                                               *)

IsLeap(y) == (y % 4 = 0 /\ y % 100 # 0) \/ y % 400 = 0

DaysInMonth(y, m) ==
    IF m = 2 THEN (IF IsLeap(y) THEN 29 ELSE 28)
    ELSE IF m \in {4, 6, 9, 11} THEN 30 ELSE 31

\* date + timedelta(days=n), a month at a time.
RECURSIVE AddDays(_, _)
AddDays(d, n) ==
    IF n >= 0 THEN
        LET left == DaysInMonth(d[1], d[2]) - d[3]
        IN  IF n <= left THEN <<d[1], d[2], d[3] + n>>
            ELSE IF d[2] < 12 THEN AddDays(<<d[1], d[2] + 1, 1>>, n - left - 1)
            ELSE AddDays(<<d[1] + 1, 1, 1>>, n - left - 1)
    ELSE
        IF -n < d[3] THEN <<d[1], d[2], d[3] + n>>
        ELSE IF d[2] > 1
             THEN AddDays(<<d[1], d[2] - 1, DaysInMonth(d[1], d[2] - 1)>>, n + d[3])
             ELSE AddDays(<<d[1] - 1, 12, 31>>, n + d[3])

\* The date on which the session starts.
StartDate == <<2024, 12, 31>>

\* datetime.now() + timedelta(days=n), formatted with "%Y-%m-%d".
NowPlus(n) == AddDays(StartDate, today + n)

\* validate_date(date_str): strptime(date_str, "%Y-%m-%d") accepts the text
\* exactly when it names a day of the calendar.
validate_date(s) ==
    /\ Len(s) = 3
    /\ s[1] >= 1 /\ s[1] <= 9999
    /\ s[2] >= 1 /\ s[2] <= 12
    /\ s[3] >= 1 /\ s[3] <= DaysInMonth(s[1], s[2])

\* a is an earlier day than b.
DateLess(a, b) ==
    \/ a[1] < b[1]
    \/ a[1] = b[1] /\ a[2] < b[2]
    \/ a[1] = b[1] /\ a[2] = b[2] /\ a[3] < b[3]

-----------------------------------------------------------------------------
(* Initial state: SessionState.__init__.                                   *)

NoCall == [fn |-> "none", args |-> [nothing |-> TRUE], out |-> [nothing |-> TRUE]]

\* news_cache = None.  Nothing reads the cache but the truth test of
\* get_news, to which None and the empty list are the same.
NoNews == <<>>

\* time.time() when the session starts: midnight UTC of StartDate.
StartClock == 1735603200

\* The two goals of a new session; days is the distance of the deadline.
DefaultGoalData ==
    <<[name |-> "Emergency Fund", target |-> 500000, days |-> 365, saved |-> 100000],
      [name |-> "Vacation Fund", target |-> 200000, days |-> 180, saved |-> 50000]>>

DefaultGoal(g) ==
    [name |-> DefaultGoalData[g].name, target |-> DefaultGoalData[g].target,
     deadline |-> NowPlus(DefaultGoalData[g].days),
     saved |-> DefaultGoalData[g].saved, created |-> NowPlus(0)]

DefaultGoals == <<DefaultGoal(1), DefaultGoal(2)>>

DefaultInvestments ==
    <<[type |-> "Mutual Fund", name |-> "Index Fund", amount |-> 100000,
       date |-> NowPlus(-90), current_value |-> 105000, ticker |-> "",
       notes |-> "Nifty 50 Index Fund"],
      [type |-> "Fixed Deposit", name |-> "Bank FD", amount |-> 50000,
       date |-> NowPlus(-60), current_value |-> 51000, ticker |-> "",
       notes |-> "1 Year FD @ 7.5%"]>>

\* The state after the module is loaded: key_found tells whether the
\* environment holds GEMINI_API_KEY.
Start(key_found) ==
    /\ today = 0
    /\ income = DEFAULT_INCOME
    /\ expenses = DEFAULT_EXPENSES
    /\ savings = DEFAULT_SAVINGS
    /\ assets = DEFAULT_ASSETS
    /\ liabilities = DEFAULT_LIABILITIES
    /\ goals = DefaultGoals
    /\ investments = DefaultInvestments
    /\ ret = NoCall
    /\ news_cache = NoNews
    /\ news_cache_time = 0
    /\ market_data_cache = <<>>
    /\ clock = StartClock
    /\ chat_history = <<>>
    /\ API_ENABLED = key_found

\* A session started without the key.
Init == Start(FALSE)

-----------------------------------------------------------------------------
(* Calls of the calculators on arbitrary arguments.                        *)

CalcInputs == {Num(-50), Num(0), Num(40), Num(100), NumStr(40), Text, None}

MapLabels == {"a", "b"}
MapValues == {Num(40), Num(100), Text, None}
MapInputs == UNION {[S -> MapValues] : S \in SUBSET MapLabels}

CallSavings(i, e) ==
    /\ ret' = [fn |-> "savings", args |-> [income |-> i, expenses |-> e],
               out |-> calculate_savings_metrics(i, e)]
    /\ UNCHANGED <<session, today>>
    /\ UNCHANGED <<feeds, chat>>

CallNetWorth(a, l) ==
    /\ ret' = [fn |-> "net_worth", args |-> [assets |-> a, liabilities |-> l],
               out |-> calculate_net_worth(a, l)]
    /\ UNCHANGED <<session, today>>
    /\ UNCHANGED <<feeds, chat>>

NextCalc ==
    \/ \E i \in CalcInputs, e \in CalcInputs : CallSavings(i, e)
    \/ \E a \in MapInputs, l \in MapInputs : CallNetWorth(a, l)

SpecCalc == Init /\ [][NextCalc]_vars

-----------------------------------------------------------------------------
(* The forms of the dashboard.  Each action is one press of a button with  *)
(* the values then held by the widgets of its form.                        *)

\* The values of the budget form (both inputs have min_value=0.0), as
\* <<income, expenses>>.
BudgetForms == {<<0, 60000>>, <<100000, 0>>, <<100000, 120000>>, <<100000, 60000>>}

\* The values typed into the balance-sheet inputs, one per label.
AssetForms == {[DEFAULT_ASSETS EXCEPT !["vehicles"] = 0]}
LiabilityForms == {[DEFAULT_LIABILITIES EXCEPT !["credit_cards"] = 6000000]}

\* The values of the "Add New Goal" form, as <<name, amount, deadline>>: a
\* missing name, a zero amount, an empty date, the 30th of February, and two
\* complete forms, one of them repeating the name of a default goal.
GoalForms ==
    {<<"", 20000, <<2024, 12, 31>>>>,
     <<"Car", 0, <<2024, 12, 31>>>>,
     <<"Car", 20000, <<>>>>,
     <<"Car", 20000, <<2025, 2, 30>>>>,
     <<"Car", 20000, <<2024, 12, 31>>>>,
     <<"Emergency Fund", 20000, <<2024, 12, 31>>>>}

\* The amounts of the "Add to Savings" input (min_value=0.0).
DepositInputs == {0, 25000}

\* The values of the "Add New Investment" form, as
\* <<type, name, amount, date, ticker, notes>>.
InvestmentForms ==
    {<<"ETF", "", 10000, <<2024, 12, 1>>, "GOLDBEES.NS", "">>,
     <<"ETF", "Gold ETF", 0, <<2024, 12, 1>>, "GOLDBEES.NS", "">>,
     <<"ETF", "Gold ETF", 10000, <<2024, 12>>, "GOLDBEES.NS", "">>,
     <<"ETF", "Gold ETF", 10000, <<2024, 12, 1>>, "GOLDBEES.NS", "">>}

\* The values of the "Current Value" input (min_value=0.0).
ValueInputs == {0, 60000}

\* The position of the first record of seq named n.
FirstNamed(seq, n) ==
    CHOOSE i \in 1..Len(seq) :
        /\ seq[i].name = n
        /\ \A j \in 1..(i - 1) : seq[j].name # n

Names(seq) == {seq[i].name : i \in 1..Len(seq)}

RECURSIVE SumSaved(_)
SumSaved(seq) ==
    IF seq = <<>> THEN 0 ELSE Head(seq).saved + SumSaved(Tail(seq))

\* The deposits of an exploration: what the default goals hold, and the
\* amount of the one non-zero deposit.
InitialSaved == SumSaved(DefaultGoalData)
DepositUnit == CHOOSE a \in DepositInputs : a > 0

\* Variants of "Update Budget" with a slip in them.
UpdateBudgetStoringFirst(i, e) ==
    /\ IF i <= 0 \/ e <= 0 THEN UNCHANGED <<income, expenses, savings>>
       ELSE /\ income' = i
            /\ expenses' = e
            /\ IF e > i THEN UNCHANGED savings
               ELSE savings' = calculate_savings_metrics(Num(i), Num(e)).savings
    /\ UNCHANGED <<assets, liabilities, goals, investments, today, ret>>
    /\ UNCHANGED <<feeds, chat>>

\* create_budget_ui, "Update Budget".
UpdateBudget(i, e) ==
    /\ IF i <= 0 \/ e <= 0 THEN UNCHANGED <<income, expenses, savings>>
       ELSE IF e > i THEN UNCHANGED <<income, expenses, savings>>
       ELSE /\ income' = i
            /\ expenses' = e
            /\ savings' = calculate_savings_metrics(Num(i), Num(e)).savings
    /\ UNCHANGED <<assets, liabilities, goals, investments, today, ret>>
    /\ UNCHANGED <<feeds, chat>>

\* create_budget_ui, the savings-rate metric shown beside the form.
ShowSavingsRate ==
    /\ ret' = [fn |-> "savings",
               args |-> [income |-> Num(income), expenses |-> Num(expenses)],
               out |-> calculate_savings_metrics(Num(income), Num(expenses))]
    /\ UNCHANGED <<session, today>>
    /\ UNCHANGED <<feeds, chat>>

\* chat_interface, the net worth written into the prompt.
ShowNetWorth ==
    /\ ret' = [fn |-> "net_worth",
               args |-> [assets |-> AsValues(assets), liabilities |-> AsValues(liabilities)],
               out |-> calculate_net_worth(AsValues(assets), AsValues(liabilities))]
    /\ UNCHANGED <<session, today>>
    /\ UNCHANGED <<feeds, chat>>

\* create_balance_sheet_ui, "Update Assets": the dict is replaced by the
\* inputs of the form, which has one input per label of the dict.
UpdateAssets(form) ==
    /\ assets' = [k \in DOMAIN assets |-> form[k]]
    /\ UNCHANGED <<income, expenses, savings, liabilities, goals, investments, today, ret>>
    /\ UNCHANGED <<feeds, chat>>

\* create_balance_sheet_ui, "Update Liabilities".
UpdateLiabilities(form) ==
    /\ liabilities' = [k \in DOMAIN liabilities |-> form[k]]
    /\ UNCHANGED <<income, expenses, savings, assets, goals, investments, today, ret>>
    /\ UNCHANGED <<feeds, chat>>

\* Variants of "Add Goal" with a slip in them.
AddGoalAtFront(goal_name, goal_amount, goal_deadline) ==
    /\ Len(goals) < MaxGoals
    /\ IF goal_name = "" \/ goal_amount = 0 \/ goal_deadline = <<>> THEN UNCHANGED goals
       ELSE IF ~validate_date(goal_deadline) THEN UNCHANGED goals
       ELSE IF goal_amount <= 0 THEN UNCHANGED goals
       ELSE goals' = <<[name |-> goal_name, target |-> goal_amount,
                        deadline |-> goal_deadline, saved |-> 0,
                        created |-> NowPlus(0)]>> \o goals
    /\ UNCHANGED <<income, expenses, savings, assets, liabilities, investments, today, ret>>
    /\ UNCHANGED <<feeds, chat>>

\* create_savings_ui, "Add Goal".
AddGoal(goal_name, goal_amount, goal_deadline) ==
    /\ Len(goals) < MaxGoals
    /\ IF goal_name = "" \/ goal_amount = 0 \/ goal_deadline = <<>> THEN UNCHANGED goals
       ELSE IF ~validate_date(goal_deadline) THEN UNCHANGED goals
       ELSE IF goal_amount <= 0 THEN UNCHANGED goals
       ELSE goals' = Append(goals, [name |-> goal_name, target |-> goal_amount,
                                    deadline |-> goal_deadline, saved |-> 0,
                                    created |-> NowPlus(0)])
    /\ UNCHANGED <<income, expenses, savings, assets, liabilities, investments, today, ret>>
    /\ UNCHANGED <<feeds, chat>>

\* Variants of "Update Savings" with a slip in them.
UpdateSavingsSubtracting(selected_goal, add_amount) ==
    /\ selected_goal \in Names(goals)
    /\ SumSaved(goals) + add_amount <= InitialSaved + MaxDeposits * DepositUnit
    /\ LET g == FirstNamed(goals, selected_goal)
       IN  IF add_amount <= 0 THEN UNCHANGED <<goals, savings>>
           ELSE /\ goals' = [goals EXCEPT ![g].saved = @ - add_amount]
                /\ savings' = savings + add_amount
    /\ UNCHANGED <<income, expenses, assets, liabilities, investments, today, ret>>
    /\ UNCHANGED <<feeds, chat>>

UpdateSavingsLastGoal(selected_goal, add_amount) ==
    /\ selected_goal \in Names(goals)
    /\ SumSaved(goals) + add_amount <= InitialSaved + MaxDeposits * DepositUnit
    /\ IF add_amount <= 0 THEN UNCHANGED <<goals, savings>>
       ELSE /\ goals' = [goals EXCEPT ![Len(goals)].saved = @ + add_amount]
            /\ savings' = savings + add_amount
    /\ UNCHANGED <<income, expenses, assets, liabilities, investments, today, ret>>
    /\ UNCHANGED <<feeds, chat>>

\* create_savings_ui, the progress of a goal: the percentage shown as a
\* metric, an exact fraction, and the whole number handed to st.progress.
progress(goal) ==
    IF goal.target > 0 THEN <<goal.saved * 100, goal.target>> ELSE <<0, 1>>

progress_bar(goal) == progress(goal)[1] \div progress(goal)[2]

\* create_savings_ui, "Update Savings".  The form is built for the goals
\* named like the selected one, in list order; the form of the first is the
\* one the page shows, a second form of the same key being refused by
\* st.form.
UpdateSavings(selected_goal, add_amount) ==
    /\ selected_goal \in Names(goals)
    /\ SumSaved(goals) + add_amount <= InitialSaved + MaxDeposits * DepositUnit
    /\ LET g == FirstNamed(goals, selected_goal)
       IN  IF add_amount <= 0 THEN UNCHANGED <<goals, savings>>
           ELSE /\ goals' = [goals EXCEPT ![g].saved = @ + add_amount]
                /\ savings' = savings + add_amount
    /\ UNCHANGED <<income, expenses, assets, liabilities, investments, today, ret>>
    /\ UNCHANGED <<feeds, chat>>

\* Variants of "Add Investment" with a slip in them.
AddInvestmentAnyAmount(inv_type, inv_name, inv_amount, inv_date, inv_ticker, inv_notes) ==
    /\ Len(investments) < MaxInvestments
    /\ IF inv_type = "" \/ inv_name = "" \/ inv_date = <<>>
       THEN UNCHANGED investments
       ELSE IF ~validate_date(inv_date) THEN UNCHANGED investments
       ELSE investments' = Append(investments,
                [type |-> inv_type, name |-> inv_name, amount |-> inv_amount,
                 date |-> inv_date, current_value |-> inv_amount,
                 ticker |-> inv_ticker, notes |-> inv_notes])
    /\ UNCHANGED <<income, expenses, savings, assets, liabilities, goals, today, ret>>
    /\ UNCHANGED <<feeds, chat>>

\* create_investments_ui, "Add Investment".
AddInvestment(inv_type, inv_name, inv_amount, inv_date, inv_ticker, inv_notes) ==
    /\ Len(investments) < MaxInvestments
    /\ IF inv_type = "" \/ inv_name = "" \/ inv_amount = 0 \/ inv_date = <<>>
       THEN UNCHANGED investments
       ELSE IF ~validate_date(inv_date) THEN UNCHANGED investments
       ELSE IF inv_amount <= 0 THEN UNCHANGED investments
       ELSE investments' = Append(investments,
                [type |-> inv_type, name |-> inv_name, amount |-> inv_amount,
                 date |-> inv_date, current_value |-> inv_amount,
                 ticker |-> inv_ticker, notes |-> inv_notes])
    /\ UNCHANGED <<income, expenses, savings, assets, liabilities, goals, today, ret>>
    /\ UNCHANGED <<feeds, chat>>

\* Variants of "Update Value" with a slip in them.
UpdateValueRecomputing(selected_inv, new_value) ==
    /\ selected_inv \in Names(investments)
    /\ LET v == FirstNamed(investments, selected_inv)
       IN  IF new_value <= 0 THEN UNCHANGED investments
           ELSE investments' = [investments EXCEPT ![v].current_value = new_value,
                                                   ![v].amount = new_value]
    /\ UNCHANGED <<income, expenses, savings, assets, liabilities, goals, today, ret>>
    /\ UNCHANGED <<feeds, chat>>

\* create_investments_ui, "Update Value".
UpdateValue(selected_inv, new_value) ==
    /\ selected_inv \in Names(investments)
    /\ LET v == FirstNamed(investments, selected_inv)
       IN  IF new_value <= 0 THEN UNCHANGED investments
           ELSE investments' = [investments EXCEPT ![v].current_value = new_value]
    /\ UNCHANGED <<income, expenses, savings, assets, liabilities, goals, today, ret>>
    /\ UNCHANGED <<feeds, chat>>

\* Midnight passes: datetime.now() is a day later.
AdvanceDay ==
    /\ today < MaxDay
    /\ today' = today + 1
    /\ UNCHANGED <<session, ret>>
    /\ UNCHANGED <<feeds, chat>>

Next ==
    \/ \E f \in BudgetForms : UpdateBudget(f[1], f[2])
    \/ \E f \in AssetForms : UpdateAssets(f)
    \/ \E f \in LiabilityForms : UpdateLiabilities(f)
    \/ \E f \in GoalForms : AddGoal(f[1], f[2], f[3])
    \/ \E n \in Names(goals), a \in DepositInputs : UpdateSavings(n, a)
    \/ \E f \in InvestmentForms : AddInvestment(f[1], f[2], f[3], f[4], f[5], f[6])
    \/ \E n \in Names(investments), v \in ValueInputs : UpdateValue(n, v)
    \/ AdvanceDay

Spec == Init /\ [][Next]_vars

\* The calculators as the pages call them, on the stored figures, between
\* presses of the buttons that write the money fields of the session.
NextCalls ==
    \/ ShowSavingsRate
    \/ ShowNetWorth
    \/ \E f \in BudgetForms : UpdateBudget(f[1], f[2])
    \/ \E f \in AssetForms : UpdateAssets(f)
    \/ \E f \in LiabilityForms : UpdateLiabilities(f)
    \/ \E n \in Names(goals), a \in DepositInputs : UpdateSavings(n, a)

SpecCalls == Init /\ [][NextCalls]_vars

-----------------------------------------------------------------------------
(* The news cache: SessionState.get_news.  A headline is a record of its   *)
(* source, the number of its title and the number of its publication time; *)
(* the titles of the static samples are the numbers below zero.            *)

\* Seconds the clock may run in an exploration of the news cache.
MaxNewsSeconds == 900

\* The numbers written in get_news and _fetch_financial_news.
NewsCacheSeconds == 300
MinHeadlines == 5
EntriesPerFeed == 15
MaxHeadlines == 15
SampleCount == 7

NewsSources ==
    <<"Economic Times", "Moneycontrol", "Business Standard", "Reuters Business",
      "Bloomberg Quint">>

\* s[:n]
Take(s, n) == SubSeq(s, 1, IF Len(s) < n THEN Len(s) ELSE n)

\* _get_sample_news()
get_sample_news ==
    [i \in 1..SampleCount |-> [source |-> "sample", title |-> -i, published |-> 0]]

\* The items one source adds to news_items: of the first entries of its
\* feed, those whose title holds a keyword of finance.  A source whose
\* request or parsing raises adds the entries read before that, and the
\* loop goes on to the next source.
SourceItems(name, entries) ==
    LET kept == SelectSeq(Take(entries, EntriesPerFeed), LAMBDA en : en.financial)
    IN  [i \in 1..Len(kept) |->
            [source |-> name, title |-> kept[i].title, published |-> kept[i].published]]

RECURSIVE AllItems(_, _)
AllItems(responses, k) ==
    IF k > Len(NewsSources) THEN <<>>
    ELSE SourceItems(NewsSources[k], responses[k]) \o AllItems(responses, k + 1)

\* {n['title']: n for n in news_items}.values(): one item a title, at the
\* place of the first item of that title and with the fields of the last.
RECURSIVE UniqueByTitle(_, _)
UniqueByTitle(items, seen) ==
    IF items = <<>> THEN <<>>
    ELSE LET t == Head(items).title
             last == CHOOSE i \in 1..Len(items) :
                        /\ items[i].title = t
                        /\ \A j \in (i + 1)..Len(items) : items[j].title # t
         IN  IF t \in seen THEN UniqueByTitle(Tail(items), seen)
             ELSE <<items[last]>> \o UniqueByTitle(Tail(items), seen \cup {t})

\* sorted(..., key=published, reverse=True): latest first, items of one
\* publication time in the order they had.
RECURSIVE SortedByPublished(_)
SortedByPublished(items) ==
    IF items = <<>> THEN <<>>
    ELSE LET x == items[Len(items)]
             t == SortedByPublished(SubSeq(items, 1, Len(items) - 1))
             k == Cardinality({i \in 1..Len(t) : t[i].published >= x.published})
         IN  SubSeq(t, 1, k) \o <<x>> \o SubSeq(t, k + 1, Len(t))

\* _fetch_financial_news(), given what the five requests bring; crash is an
\* exception raised outside the handler of the loop over the sources.
fetch_financial_news(feed) ==
    IF feed.crash THEN [kind |-> "raise"]
    ELSE [kind |-> "return",
          items |-> Take(SortedByPublished(UniqueByTitle(AllItems(feed.responses, 1), {})),
                         MaxHeadlines)]


\* The entries numbered lo to hi, all of finance, each published at the
\* time of its number; and an entry that is not of finance.
Entries(lo, hi) ==
    [i \in 1..(hi - lo + 1) |->
        [title |-> lo + i - 1, financial |-> TRUE, published |-> lo + i - 1]]
OffTopic == <<[title |-> 99, financial |-> FALSE, published |-> 99]>>

\* What the five requests of one refresh bring: an exception outside the
\* loop; nothing from any source; four headlines of finance; five, two
\* sources carrying one title; and more than fifteen, the first source
\* sending more than fifteen entries.
FeedForms ==
    {[crash |-> TRUE, responses |-> <<<<>>, <<>>, <<>>, <<>>, <<>>>>],
     [crash |-> FALSE, responses |-> <<<<>>, <<>>, <<>>, <<>>, <<>>>>],
     [crash |-> FALSE, responses |-> <<Entries(1, 4) \o OffTopic, <<>>, OffTopic, <<>>, <<>>>>],
     [crash |-> FALSE, responses |-> <<Entries(1, 3), <<>>, Entries(3, 5), <<>>, <<>>>>],
     [crash |-> FALSE, responses |-> <<Entries(1, 16), <<>>, <<>>, Entries(17, 20), <<>>>>]}

\* The seconds a refresh takes, and the seconds that pass between calls.
FetchSeconds == {0, 5}
NewsTicks == {299, 300}

\* Variants of the tests of get_news with a slip in them.
NewsCacheFreshInclusive(cache, cached_at, now) ==
    cache # <<>> /\ (now - cached_at) <= NewsCacheSeconds

TooFewOnlyEmpty(items) == items = <<>>

\* self.news_cache and (time.time() - self.news_cache_time) < 300
NewsCacheFresh(cache, cached_at, now) ==
    cache # <<>> /\ (now - cached_at) < NewsCacheSeconds

\* not self.news_cache or len(self.news_cache) < 5
TooFew(items) == items = <<>> \/ Len(items) < MinHeadlines

\* SessionState.get_news(); feed is what the network brings if it is asked,
\* took the seconds the refresh takes.
get_news(feed, took) ==
    /\ clock + took <= StartClock + MaxNewsSeconds
    /\ IF NewsCacheFresh(news_cache, news_cache_time, clock)
       THEN /\ ret' = [fn |-> "get_news",
                       args |-> [at |-> clock, news_cache |-> news_cache,
                                 news_cache_time |-> news_cache_time],
                       out |-> [kind |-> "return", news |-> news_cache,
                                fetch |-> [kind |-> "none"], at |-> clock]]
            /\ UNCHANGED <<news_cache, news_cache_time, clock>>
       ELSE LET fetched == fetch_financial_news(feed)
                stored == IF fetched.kind = "raise" THEN get_sample_news
                          ELSE IF TooFew(fetched.items) THEN get_sample_news
                          ELSE fetched.items
            IN  /\ news_cache' = stored
                /\ clock' = clock + took
                /\ news_cache_time' = clock'
                /\ ret' = [fn |-> "get_news",
                           args |-> [at |-> clock, news_cache |-> news_cache,
                                     news_cache_time |-> news_cache_time],
                           out |-> [kind |-> "return", news |-> stored,
                                    fetch |-> fetched, at |-> clock']]
    /\ UNCHANGED <<session, today, market_data_cache, chat>>

\* d seconds pass, of the limit that an exploration lets pass.
Tick(d, limit) ==
    /\ clock + d <= StartClock + limit
    /\ clock' = clock + d
    /\ UNCHANGED <<session, today, ret, news_cache, news_cache_time, market_data_cache, chat>>

NextNews ==
    \/ \E feed \in FeedForms, took \in FetchSeconds : get_news(feed, took)
    \/ \E d \in NewsTicks : Tick(d, MaxNewsSeconds)

SpecNews == Init /\ [][NextNews]_vars

-----------------------------------------------------------------------------
(* The market-data cache: get_market_data, called by "Get Market Data".    *)
(* A DataFrame of price history is a record that tells whether it is empty *)
(* and the time at which it was fetched.                                   *)

\* Seconds the clock may run in an exploration of the market-data cache.
MaxMarketSeconds == 3700

MarketTicks == {1800, 1801}

\* The texts typed into the symbol input, and what yfinance does when asked
\* for a history.
Tickers == {"", "RELIANCE.NS", "TCS.NS"}
Histories == {"raise", "empty", "rows"}

\* A variant of get_market_data with a slip in it: whatever was fetched is
\* stored.
get_market_data_storing_empty(ticker, history) ==
    IF ticker \in DOMAIN market_data_cache
    THEN /\ ret' = [fn |-> "get_market_data", args |-> [ticker |-> ticker, at |-> clock],
                    out |-> [kind |-> "return", data |-> market_data_cache[ticker],
                             fetched |-> FALSE]]
         /\ UNCHANGED market_data_cache
    ELSE IF history = "raise"
    THEN /\ ret' = [fn |-> "get_market_data", args |-> [ticker |-> ticker, at |-> clock],
                    out |-> [kind |-> "return", data |-> [empty |-> TRUE, asof |-> clock],
                             fetched |-> TRUE]]
         /\ UNCHANGED market_data_cache
    ELSE LET data == [empty |-> (history = "empty"), asof |-> clock]
         IN  /\ market_data_cache' =
                    [t \in DOMAIN market_data_cache \cup {ticker} |->
                        IF t = ticker THEN data ELSE market_data_cache[t]]
             /\ ret' = [fn |-> "get_market_data", args |-> [ticker |-> ticker, at |-> clock],
                        out |-> [kind |-> "return", data |-> data, fetched |-> TRUE]]

\* get_market_data(ticker); history is what yf.Ticker(ticker).history does
\* if it is called.
get_market_data(ticker, history) ==
    IF ticker \in DOMAIN market_data_cache
    THEN /\ ret' = [fn |-> "get_market_data", args |-> [ticker |-> ticker, at |-> clock],
                    out |-> [kind |-> "return", data |-> market_data_cache[ticker],
                             fetched |-> FALSE]]
         /\ UNCHANGED market_data_cache
    ELSE IF history = "raise"
    THEN /\ ret' = [fn |-> "get_market_data", args |-> [ticker |-> ticker, at |-> clock],
                    out |-> [kind |-> "return", data |-> [empty |-> TRUE, asof |-> clock],
                             fetched |-> TRUE]]
         /\ UNCHANGED market_data_cache
    ELSE LET data == [empty |-> (history = "empty"), asof |-> clock]
         IN  /\ market_data_cache' =
                    IF ~data.empty
                    THEN [t \in DOMAIN market_data_cache \cup {ticker} |->
                             IF t = ticker THEN data ELSE market_data_cache[t]]
                    ELSE market_data_cache
             /\ ret' = [fn |-> "get_market_data", args |-> [ticker |-> ticker, at |-> clock],
                        out |-> [kind |-> "return", data |-> data, fetched |-> TRUE]]

\* create_investments_ui, "Get Market Data".
GetMarketData(ticker, history) ==
    /\ IF ticker = "" THEN UNCHANGED <<ret, market_data_cache>>
       ELSE get_market_data(ticker, history)
    /\ UNCHANGED <<session, today, news_cache, news_cache_time, clock, chat>>

NextMarket ==
    \/ \E ticker \in Tickers, history \in Histories : GetMarketData(ticker, history)
    \/ \E d \in MarketTicks : Tick(d, MaxMarketSeconds)

SpecMarket == Init /\ [][NextMarket]_vars

-----------------------------------------------------------------------------
(* The formulas of the planning tools: the SIP calculator of               *)
(* create_learning_ui and the goal forecaster.  A float that is no amount  *)
(* of money (a rate, a growth factor) is kept in fixed point, as the       *)
(* integer nearest below Scale times its value.                            *)

Scale == 10000

\* a / b on floats: ZeroDivisionError when b is 0.
FloatDivide(a, b) ==
    IF b = 0 THEN [kind |-> "raise", error |-> "ZeroDivisionError"]
    ELSE [kind |-> "return", v |-> (a * Scale) \div b]

\* a * b, one of the two a fixed-point float.
FloatTimes(a, b) == (a * b) \div Scale

\* g ** n
RECURSIVE FloatPower(_, _)
FloatPower(g, n) ==
    IF n = 0 THEN Scale ELSE FloatTimes(FloatPower(g, n - 1), g)

\* create_learning_ui, the lines under "Calculate" of the SIP calculator:
\*   monthly_rate = sip_rate / 100 / 12
\*   months = sip_years * 12
\*   future_value = sip_monthly * (((1 + monthly_rate)**months - 1) / monthly_rate)
\*                  * (1 + monthly_rate)
sip_future_value(sip_monthly, sip_rate, sip_years) ==
    LET monthly_rate == (sip_rate * Scale) \div 1200
        months == sip_years * 12
        quotient == FloatDivide(FloatPower(Scale + monthly_rate, months) - Scale,
                                monthly_rate)
    IN  IF quotient.kind = "raise" THEN quotient
        ELSE [kind |-> "return",
              future_value |->
                  FloatTimes(FloatTimes(sip_monthly, quotient.v), Scale + monthly_rate)]

\* The arguments the formula is evaluated on.
SipMonthly == {1000, 2000}
SipRates == {0, 1, 12, 30}
SipYears == {1, 2, 3}

CallSip(sip_monthly, sip_rate, sip_years) ==
    /\ ret' = [fn |-> "sip",
               args |-> [sip_monthly |-> sip_monthly, sip_rate |-> sip_rate,
                         sip_years |-> sip_years],
               out |-> sip_future_value(sip_monthly, sip_rate, sip_years)]
    /\ UNCHANGED <<session, today, feeds, chat>>

\* a / b where a is an amount of money times a fixed-point float and b a
\* fixed-point float: ZeroDivisionError when b is 0.
MoneyDivide(a, b) ==
    IF b = 0 THEN [kind |-> "raise", error |-> "ZeroDivisionError"]
    ELSE [kind |-> "return", emi |-> a \div b]

\* monthly_rate = rate / 100 / 12
MonthlyRate(rate) == (rate * Scale) \div 1200

\* (1 + monthly_rate)**months - 1, with months = years * 12
GrowthMinusOne(rate, years) == FloatPower(Scale + MonthlyRate(rate), years * 12) - Scale

\* create_learning_ui, the lines under "Calculate" of the EMI calculator:
\*   monthly_rate = emi_interest / 100 / 12
\*   months = emi_tenure * 12
\*   emi = emi_principal * monthly_rate * (1 + monthly_rate)**months
\*         / ((1 + monthly_rate)**months - 1)
emi_monthly(emi_principal, emi_interest, emi_tenure) ==
    LET monthly_rate == (emi_interest * Scale) \div 1200
        months == emi_tenure * 12
    IN  MoneyDivide(FloatTimes(emi_principal, monthly_rate)
                        * FloatPower(Scale + monthly_rate, months),
                    FloatPower(Scale + monthly_rate, months) - Scale)

\* What the widgets of the two forms can hand over.
SipYearsSlider == 1..40
SipRateSlider == 1..30
SipMonthlyMinimum == 1000
EmiPrincipalMinimum == 1000
EmiInterestSlider == 1..30
EmiTenureSlider == 1..30

\* The values tried on the widgets.
TriedRates == {0, 1, 5, 10, 12, 20, 30}
TriedYears == {0, 1, 2, 3}
TriedMonthly == {0, 1000, 1500, 2000}
TriedPrincipals == {0, 1000, 100000, 1000000}

\* A variant of the SIP form with a slip in it: the rate slider starts at 0.
SipCalculateFromZero(sip_years, sip_monthly, sip_rate) ==
    /\ sip_years \in SipYearsSlider
    /\ sip_monthly >= SipMonthlyMinimum
    /\ sip_rate \in {0} \cup SipRateSlider
    /\ ret' = [fn |-> "sip_calculator",
               args |-> [rate |-> sip_rate, years |-> sip_years, amount |-> sip_monthly],
               out |-> sip_future_value(sip_monthly, sip_rate, sip_years)]
    /\ UNCHANGED <<session, today, feeds, chat>>

\* create_learning_ui, the form "sip_calculator" and its "Calculate": the
\* sliders and the number input hand over values of their ranges only.
SipCalculate(sip_years, sip_monthly, sip_rate) ==
    /\ sip_years \in SipYearsSlider
    /\ sip_monthly >= SipMonthlyMinimum
    /\ sip_rate \in SipRateSlider
    /\ ret' = [fn |-> "sip_calculator",
               args |-> [rate |-> sip_rate, years |-> sip_years, amount |-> sip_monthly],
               out |-> sip_future_value(sip_monthly, sip_rate, sip_years)]
    /\ UNCHANGED <<session, today, feeds, chat>>

\* create_learning_ui, the form "emi_calculator" and its "Calculate".
EmiCalculate(emi_principal, emi_interest, emi_tenure) ==
    /\ emi_principal >= EmiPrincipalMinimum
    /\ emi_interest \in EmiInterestSlider
    /\ emi_tenure \in EmiTenureSlider
    /\ ret' = [fn |-> "emi_calculator",
               args |-> [rate |-> emi_interest, years |-> emi_tenure,
                         amount |-> emi_principal],
               out |-> emi_monthly(emi_principal, emi_interest, emi_tenure)]
    /\ UNCHANGED <<session, today, feeds, chat>>

NextLearning ==
    \/ \E y \in TriedYears, m \in TriedMonthly, r \in TriedRates : SipCalculate(y, m, r)
    \/ \E p \in TriedPrincipals, r \in TriedRates, y \in TriedYears : EmiCalculate(p, r, y)

SpecLearning == Init /\ [][NextLearning]_vars

\* The number of the day d in the calendar, as date.toordinal() counts.
DaysBeforeYear(y) ==
    365 * (y - 1) + ((y - 1) \div 4) - ((y - 1) \div 100) + ((y - 1) \div 400)

RECURSIVE DaysBeforeMonth(_, _)
DaysBeforeMonth(y, m) ==
    IF m = 1 THEN 0 ELSE DaysInMonth(y, m - 1) + DaysBeforeMonth(y, m - 1)

Ordinal(d) == DaysBeforeYear(d[1]) + DaysBeforeMonth(d[1], d[2]) + d[3]

\* days_between(now_date, deadline_date)
days_between(a, b) == Ordinal(b) - Ordinal(a)

Max(a, b) == IF a >= b THEN a ELSE b

\* The zero-valued result of a forecast that fails.
ZeroForecast ==
    [kind |-> "return", failed |-> TRUE,
     required_monthly |-> <<0, 1>>, completion_probability |-> <<0, 1>>]

\* Variants of forecast_goal with a slip in them.
forecast_goal_unfloored(target, saved, deadline_date, now_date) ==
    IF target <= 0 \/ ~validate_date(deadline_date) THEN ZeroForecast
    ELSE LET months_left == days_between(now_date, deadline_date) \div 30
             num == 100 * saved * months_left + 100 * (target - saved)
             den == target * months_left
         IN  [kind |-> "return", failed |-> FALSE, months_left |-> months_left,
              required_monthly |-> <<target - saved, months_left>>,
              completion_probability |->
                  IF num > 100 * den THEN <<100, 1>> ELSE <<num, den>>]

\* forecast_goal(target, saved, deadline_date, now_date), section 4.3 of the
\* specification.  The two quotients are exact fractions; \div rounds
\* towards minus infinity, as floor does.
forecast_goal(target, saved, deadline_date, now_date) ==
    IF target <= 0 \/ ~validate_date(deadline_date) THEN ZeroForecast
    ELSE LET months_left == Max(days_between(now_date, deadline_date) \div 30, 1)
             num == 100 * saved * months_left + 100 * (target - saved)
             den == target * months_left
         IN  [kind |-> "return", failed |-> FALSE, months_left |-> months_left,
              required_monthly |-> <<target - saved, months_left>>,
              completion_probability |->
                  IF num > 100 * den THEN <<100, 1>> ELSE <<num, den>>]

\* The arguments the forecaster is called on: deadlines before, on and after
\* the days taken for now, a day no calendar has, and an empty text.
ForecastTargets == {0, 100000, 200000}
ForecastSaved == {0, 50000, 100000, 250000}
ForecastDeadlines ==
    {<<2024, 11, 15>>, <<2024, 12, 31>>, <<2025, 1, 1>>, <<2025, 1, 30>>,
     <<2025, 3, 1>>, <<2025, 12, 31>>, <<2025, 2, 30>>, <<>>}
ForecastNow == {<<2024, 12, 31>>, <<2025, 1, 1>>}

CallForecast(target, saved, deadline_date, now_date) ==
    /\ ret' = [fn |-> "forecast_goal",
               args |-> [target |-> target, saved |-> saved,
                         deadline_date |-> deadline_date, now_date |-> now_date],
               out |-> forecast_goal(target, saved, deadline_date, now_date)]
    /\ UNCHANGED <<session, today, feeds, chat>>

NextFormulas ==
    \/ \E m \in SipMonthly, r \in SipRates, y \in SipYears : CallSip(m, r, y)
    \/ \E t \in ForecastTargets, s \in ForecastSaved, d \in ForecastDeadlines,
          n \in ForecastNow : CallForecast(t, s, d, n)

SpecFormulas == Init /\ [][NextFormulas]_vars

-----------------------------------------------------------------------------
(* Properties of the calculators on arbitrary arguments (SpecCalc).        *)

\* The last call was calculate_savings_metrics on two numbers.
SavingsCallOfNumbers ==
    /\ ret.fn = "savings"
    /\ IsNum(ret.args.income) /\ IsNum(ret.args.expenses)

\* C1: for income >= 0 and expenses >= 0, calculate_savings_metrics returns
\* savings = income - expenses, also when expenses exceed income: the result
\* is then negative and no error outcome is produced.
SavingsIsIncomeMinusExpenses ==
    (SavingsCallOfNumbers /\ ret.args.income.n >= 0 /\ ret.args.expenses.n >= 0) =>
        /\ ret.out.kind = "return"
        /\ ret.out.savings = ret.args.income.n - ret.args.expenses.n
        /\ (ret.args.expenses.n > ret.args.income.n => ret.out.savings < 0)

\* A call with expenses above income has returned a negative savings figure.
NegativeSavingsReturned ==
    /\ SavingsCallOfNumbers
    /\ ret.args.income.n >= 0 /\ ret.args.expenses.n > ret.args.income.n
    /\ ret.out.kind = "return" /\ ret.out.savings < 0

\* C2: calculate_savings_metrics never divides by zero: with income not
\* greater than 0 the returned savings_rate is 0, and with income > 0 it is
\* (income - expenses) / income * 100.
SavingsRateNeverDividesByZero ==
    SavingsCallOfNumbers =>
        /\ ret.out.kind = "return"
        /\ ret.out.savings_rate[2] # 0
        /\ IF ret.args.income.n > 0
           THEN ret.out.savings_rate[1] * ret.args.income.n =
                    (ret.args.income.n - ret.args.expenses.n) * 100 * ret.out.savings_rate[2]
           ELSE ret.out.savings_rate[1] = 0

\* The call with income 0 and expenses 0 has returned the rate 0.
ZeroIncomeRateReturned ==
    /\ ret.fn = "savings"
    /\ ret.args = [income |-> Num(0), expenses |-> Num(0)]
    /\ ret.out.kind = "return" /\ ret.out.savings_rate[1] = 0

\* The sum of the values of a map of numbers.
RECURSIVE Total(_, _)
Total(d, keys) ==
    IF keys = {} THEN 0
    ELSE LET k == CHOOSE x \in keys : TRUE IN d[k].n + Total(d, keys \ {k})

AllNumeric(d) == \A k \in DOMAIN d : IsNum(d[k])

\* C3: calculate_net_worth returns the sum of the asset values minus the sum
\* of the liability values; with both maps empty the result is 0.
NetWorthIsAssetsMinusLiabilities ==
    (ret.fn = "net_worth" /\ AllNumeric(ret.args.assets) /\ AllNumeric(ret.args.liabilities)) =>
        /\ ret.out.kind = "return"
        /\ ret.out.v = Total(ret.args.assets, DOMAIN ret.args.assets)
                       - Total(ret.args.liabilities, DOMAIN ret.args.liabilities)
        /\ (DOMAIN ret.args.assets = {} /\ DOMAIN ret.args.liabilities = {} => ret.out.v = 0)

\* calculate_net_worth({"a": 100}, {"b": 40}) has returned 60.
NetWorthSixtyReturned ==
    /\ ret.fn = "net_worth"
    /\ ret.args.assets = ("a" :> Num(100)) /\ ret.args.liabilities = ("b" :> Num(40))
    /\ ret.out = [kind |-> "return", v |-> 60]

\* C4: calculate_net_worth never raises to its caller: with a value that is
\* no number among the assets or the liabilities it returns 0.
NetWorthNeverRaises ==
    ret.fn = "net_worth" =>
        /\ ret.out.kind = "return"
        /\ (~AllNumeric(ret.args.assets) \/ ~AllNumeric(ret.args.liabilities) => ret.out.v = 0)

\* A call with a text among assets that also hold 100 has returned 0.
NetWorthOfTextReturned ==
    /\ ret.fn = "net_worth"
    /\ DOMAIN ret.args.assets = {"a", "b"}
    /\ ret.args.assets["a"] = Num(100) /\ ret.args.assets["b"] = Text
    /\ AllNumeric(ret.args.liabilities)
    /\ ret.out = [kind |-> "return", v |-> 0]

\* C5: given an input that is no valid number, calculate_savings_metrics
\* hands its caller an error outcome, not a result that looks normal.
SavingsErrorsSurface ==
    (ret.fn = "savings" /\ ~SavingsCallOfNumbers) => ret.out.kind = "raise"

-----------------------------------------------------------------------------
(* Properties of the calculators among the forms (SpecCalls).              *)

\* C6: a call of calculate_savings_metrics or calculate_net_worth leaves
\* income, expenses, savings, assets, liabilities, goals and investments
\* unchanged, and returns what the previous call with the same arguments
\* returned, whatever the forms did in between.
CalculatorsArePure ==
    [][(ShowSavingsRate \/ ShowNetWorth) =>
          /\ UNCHANGED session
          /\ (ret.fn = ret'.fn /\ ret.args = ret'.args) => ret'.out = ret.out]_vars

\* The calculator was called on the stored income and expenses, and a
\* deposit has moved the stored savings away from what it returned.
CalledAroundDeposit ==
    /\ ret.fn = "savings"
    /\ ret.args = [income |-> Num(income), expenses |-> Num(expenses)]
    /\ ret.out.savings # savings

-----------------------------------------------------------------------------
(* Properties of the goal list (Spec).                                     *)

\* The date a text accepted by validate_date names.
ParseDate(s) == <<s[1], s[2], s[3]>>

\* C7: no two goals of the list have the same name.
GoalNamesUnique ==
    \A g, h \in 1..Len(goals) : g # h => goals[g].name # goals[h].name

\* C8: the saved amount of a goal never decreases, and it changes only by a
\* deposit to that goal: the step raises it, raises the session savings by
\* as much and touches nothing else.
SavedOnlyGrowsByDeposit ==
    [][\A g \in 1..Len(goals) :
          /\ g <= Len(goals')
          /\ goals'[g].saved >= goals[g].saved
          /\ goals'[g].saved # goals[g].saved =>
                /\ goals'[g].saved > goals[g].saved
                /\ savings' = savings + (goals'[g].saved - goals[g].saved)
                /\ goals' = [goals EXCEPT ![g].saved = goals'[g].saved]
                /\ UNCHANGED <<income, expenses, assets, liabilities, investments>>]_vars

\* A default goal holds more than it started with, after a budget update
\* has rewritten the session savings.
DepositMade ==
    /\ goals[1].saved > DefaultGoalData[1].saved
    /\ expenses # DEFAULT_EXPENSES

\* C9: every goal of the list has a deadline strictly later than the day it
\* was created on, so Add Goal has refused every deadline of that day or of
\* an earlier one.
GoalDeadlineAfterCreation ==
    \A g \in 1..Len(goals) : DateLess(goals[g].created, ParseDate(goals[g].deadline))

\* C10: the goal list is append-only: no step removes or reorders goals, a
\* step that adds one appends exactly one, with saved = 0 and target > 0,
\* and name, target, deadline and created of a goal never change.
GoalsAppendOnly ==
    [][/\ Len(goals') \in {Len(goals), Len(goals) + 1}
       /\ \A g \in 1..Len(goals) :
             /\ goals'[g].name = goals[g].name
             /\ goals'[g].target = goals[g].target
             /\ goals'[g].deadline = goals[g].deadline
             /\ goals'[g].created = goals[g].created
       /\ Len(goals') = Len(goals) + 1 =>
             /\ goals'[Len(goals')].saved = 0
             /\ goals'[Len(goals')].target > 0]_vars

\* A goal was added to the two default ones and then received a deposit.
GoalAddedThenFunded ==
    /\ Len(goals) > Len(DefaultGoalData)
    /\ goals[Len(goals)].saved > 0

-----------------------------------------------------------------------------
(* Properties of the investment list (Spec).                               *)

\* C11: a step that changes an investment of the list changes only the
\* current_value of that one investment: its amount, type, name, date,
\* ticker and notes, every other investment and the rest of the session
\* stay as they were.
UpdateValueChangesOnlyValue ==
    [][\A v \in 1..Len(investments) :
          /\ v <= Len(investments')
          /\ investments'[v] # investments[v] =>
                /\ investments' =
                     [investments EXCEPT ![v].current_value = investments'[v].current_value]
                /\ UNCHANGED <<income, expenses, savings, assets, liabilities, goals>>]_vars

\* The value of the first default investment was updated to 60000 beside an
\* added third investment; its amount is the one it started with.
ValueUpdatedAmountKept ==
    /\ Len(investments) > 2
    /\ investments[1].current_value = 60000
    /\ investments[1].amount = 100000

\* C12: every investment of the list has amount > 0 and current_value >= 0
\* in every state, the list grows by at most one record a step, a record
\* that enters it has current_value equal to its amount, and no step stores
\* a negative current_value.
InvestmentAmountsPositive ==
    /\ [](\A v \in 1..Len(investments) :
             investments[v].amount > 0 /\ investments[v].current_value >= 0)
    /\ [][/\ Len(investments') \in {Len(investments), Len(investments) + 1}
           /\ Len(investments') = Len(investments) + 1 =>
                 /\ investments'[Len(investments')].amount > 0
                 /\ investments'[Len(investments')].current_value =
                        investments'[Len(investments')].amount
           /\ \A v \in 1..Len(investments') : investments'[v].current_value >= 0]_vars

\* An investment was added to the two default ones and still holds, as its
\* current value, the amount typed into the form.
InvestmentAddedAtAmount ==
    /\ Len(investments) > 2
    /\ investments[Len(investments)].amount = 10000
    /\ investments[Len(investments)].current_value = 10000

-----------------------------------------------------------------------------
(* Properties of the stored budget (Spec).                                 *)

\* C13: in every state the stored savings figure is the stored income minus
\* the stored expenses, whatever budget updates and goal deposits were made.
StoredSavingsIsIncomeMinusExpenses ==
    savings = income - expenses

\* C20: Update Budget is all-or-nothing.  A press with income <= 0,
\* expenses <= 0 or expenses > income leaves the stored income, expenses and
\* savings as they were; any other press stores the two inputs and sets the
\* stored savings to their difference; no step changes income or expenses
\* in another way; and the stored income and expenses are positive, with
\* expenses <= income, in every state.
BudgetUpdateAllOrNothing ==
    /\ [](income > 0 /\ expenses > 0 /\ expenses <= income)
    /\ [][/\ \A f \in BudgetForms :
                UpdateBudget(f[1], f[2]) =>
                    IF f[1] <= 0 \/ f[2] <= 0 \/ f[2] > f[1]
                    THEN UNCHANGED <<income, expenses, savings>>
                    ELSE /\ income' = f[1]
                         /\ expenses' = f[2]
                         /\ savings' = f[1] - f[2]
           /\ (income' # income \/ expenses' # expenses) =>
                 savings' = income' - expenses']_vars

\* An accepted budget of 100000 and 60000 is stored with savings 40000,
\* beside a goal that had received a deposit before.
BudgetAccepted ==
    /\ income = 100000 /\ expenses = 60000 /\ savings = 40000
    /\ SumSaved(goals) > InitialSaved

-----------------------------------------------------------------------------
(* Properties of the news cache (SpecNews).                                *)

\* C14: the news is cached for five minutes.  A call of get_news less than
\* 300 seconds after the last refresh returns the cached list, of fetched
\* headlines or of samples, attempts no fetch and leaves the cache and its
\* time alone; a call 300 seconds or more after it attempts a fetch and sets
\* the refresh time to the time the fetch ended.
NewsCachedFiveMinutes ==
    (ret.fn = "get_news" /\ ret.args.news_cache # NoNews) =>
        IF ret.args.at - ret.args.news_cache_time < 300
        THEN /\ ret.out.fetch.kind = "none"
             /\ ret.out.news = ret.args.news_cache
             /\ news_cache = ret.args.news_cache
             /\ news_cache_time = ret.args.news_cache_time
        ELSE /\ ret.out.fetch.kind # "none"
             /\ ret.out.at >= ret.args.at
             /\ news_cache_time = ret.out.at

\* The samples stored by a refresh were served from the cache 299 seconds
\* after it.
SamplesServedFromCache ==
    /\ ret.fn = "get_news"
    /\ ret.args.at - ret.args.news_cache_time = 299
    /\ ret.args.news_cache = get_sample_news
    /\ ret.out.fetch.kind = "none"
    /\ ret.out.news = get_sample_news

\* C15: get_news never raises and never returns an empty list: when the
\* refresh raises, or brings nothing or fewer than 5 headlines, it returns
\* the static samples, and when it brings 5 or more it returns those.
NewsFallsBackToSamples ==
    ret.fn = "get_news" =>
        /\ ret.out.kind = "return"
        /\ ret.out.news # <<>>
        /\ ret.out.fetch.kind = "raise" => ret.out.news = get_sample_news
        /\ ret.out.fetch.kind = "return" =>
              IF Len(ret.out.fetch.items) < 5
              THEN ret.out.news = get_sample_news
              ELSE ret.out.news = ret.out.fetch.items

\* A refresh that brought four headlines has returned the seven samples.
FourHeadlinesReplaced ==
    /\ ret.fn = "get_news"
    /\ ret.out.fetch.kind = "return"
    /\ Len(ret.out.fetch.items) = 4
    /\ Len(ret.out.news) = 7
    /\ ret.out.news[1].source = "sample"

-----------------------------------------------------------------------------
(* Properties of the market-data cache (SpecMarket).                       *)

\* C16: the market-data cache is time-based: a call of get_market_data is
\* answered from the cache only when the cached data was fetched at most
\* one hour (3600 seconds) before; after that the call fetches again.
MarketCacheTimeBased ==
    (ret.fn = "get_market_data" /\ ~ret.out.fetched) =>
        ret.args.at - ret.out.data.asof <= 3600

\* C25: the market-data cache holds only non-empty results and never
\* changes an entry; a call for a ticker that is not cached fetches, and
\* when the fetch raises or comes back empty the call returns an empty
\* result and leaves the cache as it was (so the next call fetches again),
\* while a fetch with rows is stored and returned; a call for a cached
\* ticker returns the cached result without fetching.
MarketCacheKeepsOnlyRows ==
    /\ [](\A t \in DOMAIN market_data_cache : ~market_data_cache[t].empty)
    /\ [][\A t \in DOMAIN market_data_cache :
              t \in DOMAIN market_data_cache' /\ market_data_cache'[t] = market_data_cache[t]]_vars
    /\ [][\A t \in Tickers \ {""}, h \in Histories :
              GetMarketData(t, h) =>
                  IF t \in DOMAIN market_data_cache
                  THEN /\ ~ret'.out.fetched
                       /\ ret'.out.data = market_data_cache[t]
                       /\ UNCHANGED market_data_cache
                  ELSE /\ ret'.out.fetched
                       /\ IF h = "rows"
                          THEN /\ ~ret'.out.data.empty
                               /\ DOMAIN market_data_cache' = DOMAIN market_data_cache \cup {t}
                               /\ market_data_cache'[t] = ret'.out.data
                          ELSE /\ ret'.out.data.empty
                               /\ UNCHANGED market_data_cache]_vars

\* A ticker stored by a fetch made after the start was answered from the
\* cache by a later call, while the other ticker is not cached.
CachedAfterRetry ==
    /\ ret.fn = "get_market_data"
    /\ ~ret.out.fetched
    /\ ret.args.ticker = "TCS.NS"
    /\ ret.out.data = market_data_cache["TCS.NS"]
    /\ ret.out.data.asof > StartClock
    /\ ret.args.at > ret.out.data.asof
    /\ "RELIANCE.NS" \notin DOMAIN market_data_cache

-----------------------------------------------------------------------------
(* Properties of the formulas (SpecFormulas).                              *)

ForecastOfDeadline ==
    /\ ret.fn = "forecast_goal"
    /\ ret.args.target > 0
    /\ validate_date(ret.args.deadline_date)

\* C18: forecast_goal never raises, and for every deadline, also one before
\* or on the day taken for now, it uses
\* months_left = max(floor(days_between(now, deadline) / 30), 1), which is
\* at least 1, so that the monthly requirement is a finite quotient.
ForecastMonthsLeftAtLeastOne ==
    /\ ret.fn = "forecast_goal" => ret.out.kind = "return"
    /\ ForecastOfDeadline =>
          LET days == Ordinal(ret.args.deadline_date) - Ordinal(ret.args.now_date)
          IN  /\ ret.out.months_left >= 1
              /\ ret.out.months_left = (IF days >= 60 THEN days \div 30 ELSE 1)
              /\ ret.out.required_monthly[2] # 0

\* The forecast of a goal whose deadline passed 46 days ago has used one
\* month.
PastDeadlineForecast ==
    /\ ForecastOfDeadline
    /\ ret.args.deadline_date = <<2024, 11, 15>>
    /\ ret.args.now_date = <<2024, 12, 31>>
    /\ ret.out.months_left = 1

-----------------------------------------------------------------------------
(* Properties of the deposits (Spec).                                      *)

\* C21: a press of "Update Savings" with an amount a > 0 raises the saved
\* amount of the selected goal by a and the session savings by a, and
\* leaves every other goal, every other field of that goal, income,
\* expenses and the rest of the session as they were; a press with a <= 0
\* changes nothing.
DepositChangesOneGoal ==
    [][\A n \in Names(goals), a \in DepositInputs :
          UpdateSavings(n, a) =>
              IF a > 0
              THEN /\ \E g \in 1..Len(goals) :
                         /\ goals[g].name = n
                         /\ goals' = [goals EXCEPT ![g].saved = goals[g].saved + a]
                   /\ savings' = savings + a
                   /\ UNCHANGED <<income, expenses, assets, liabilities, investments>>
              ELSE UNCHANGED session]_vars

\* The second default goal received one deposit and the first none.
SecondGoalFunded ==
    /\ goals[2].saved = DefaultGoalData[2].saved + 25000
    /\ goals[1].saved = DefaultGoalData[1].saved
    /\ savings = DEFAULT_SAVINGS + 25000

\* C22: the whole-number progress handed to the progress bar is within
\* 0..100 for every goal that can be selected, in every state.
ProgressWithinBar ==
    \A g \in 1..Len(goals) : progress_bar(goals[g]) \in 0..100

(***************************************************************************)
(* The advisor chat (chat_interface, GeminiClient, get_fallback_response). *)
(* A text is a sequence of words; "kw in text" is the presence of the word *)
(* kw. A key f"user_{n}" is the pair <<"user", n>>. The outcome of every   *)
(* external call (yfinance history, model.generate_content) is an input    *)
(* of the step.                                                            *)
(***************************************************************************)

\* Most messages a history holds in the explored runs.
MaxMessages == 4

\* str.lower() of one word.
Lower(w) ==
    CASE w = "Invest" -> "invest"
      [] w = "LATEST" -> "latest"
      [] OTHER -> w

\* str.lower() of a text.
lower(text) == [i \in DOMAIN text |-> Lower(text[i])]

\* kw in text
Contains(text, kw) == \E i \in DOMAIN text : text[i] = kw

\* What st.chat_input can hand over: None (<<>>) or a non-empty text.
UserInputs ==
    {<<>>, <<"Invest", "gold">>, <<"budget", "today">>, <<"tax">>,
     <<"hello">>, <<"LATEST", "rates">>}

\* The outcomes of one model.generate_content call.
ModelOutcomes == {"raise", "text"}

\* The words that send a question to the web-search generation.
WebKeywords == {"current", "today", "now", "recent", "latest"}

\* get_fallback_response(query): the canned text chosen by the first of
\* "invest", "budget", "tax" found in the lowered query; the first two
\* carry today's date.
get_fallback_response(query) ==
    LET q == lower(query)
        now == NowPlus(0)
    IN  IF Contains(q, "invest") THEN [kind |-> "fallback", topic |-> "invest", now |-> now]
        ELSE IF Contains(q, "budget") THEN [kind |-> "fallback", topic |-> "budget", now |-> now]
        ELSE IF Contains(q, "tax") THEN [kind |-> "fallback", topic |-> "tax", now |-> <<>>]
        ELSE [kind |-> "fallback", topic |-> "general", now |-> <<>>]

\* model.generate_content(prompt, ..., tools) followed by response.text:
\* the text the model wrote for the prompt, or an exception.
generate_content(prompt, tools, outcome) ==
    IF outcome = "raise" THEN [ok |-> FALSE, text |-> <<>>]
    ELSE [ok |-> TRUE, text |-> [kind |-> "text", prompt |-> prompt, tools |-> tools]]

\* f"Gemini Error: {str(e)}"
GeminiError == [kind |-> "error", e |-> "Exception"]

\* GeminiClient.generate(prompt): the model's text, or the error string
\* when the call raises.
generate(prompt, plain) ==
    LET response == generate_content(prompt, FALSE, plain)
    IN  IF response.ok THEN response.text ELSE GeminiError

\* A variant of generate_with_web_search with a slip in it: no second try.
generate_with_web_search_once(prompt, web, plain) ==
    LET response == generate_content(prompt, TRUE, web)
    IN  IF response.ok THEN response.text ELSE GeminiError

\* GeminiClient.generate_with_web_search(prompt): the model's text written
\* with the web-search tool, or generate(prompt) when the call raises.
generate_with_web_search(prompt, web, plain) ==
    LET response == generate_content(prompt, TRUE, web)
    IN  IF response.ok THEN response.text ELSE generate(prompt, plain)

\* One line of the market context of the prompt: the last close when
\* history() has rows, 'N/A' when it is empty.
MarketLine(history) == IF history = "rows" THEN "Close" ELSE "N/A"

\* The f-string prompt of chat_interface.
Prompt(user_input, nifty, gold) ==
    [question |-> user_input,
     income |-> income,
     expenses |-> expenses,
     savings_rate |-> calculate_savings_metrics(Num(income), Num(expenses)).savings_rate,
     net_worth |-> calculate_net_worth(AsValues(assets), AsValues(liabilities)),
     goals |-> Len(goals),
     nifty |-> MarketLine(nifty),
     gold |-> MarketLine(gold)]

\* any(kw in user_input.lower() for kw in [...])
WantsWebSearch(user_input) == \E kw \in WebKeywords : Contains(lower(user_input), kw)

\* The generate_content calls one reply makes, in order.
ModelCalls(user_input, web) ==
    IF WantsWebSearch(user_input)
    THEN IF web = "raise" THEN <<"web_search", "plain">> ELSE <<"web_search">>
    ELSE <<"plain">>

\* chat_interface with user_input handed over by st.chat_input. The user
\* message is appended first; the reply is the canned response when the
\* API is disabled, and otherwise the prompt is built (the history() calls
\* in it are not guarded) and sent to the model; the reply is appended.
Chat(user_input, nifty, gold, web, plain) ==
    LET args == [user_input |-> user_input, nifty |-> nifty, gold |-> gold,
                 web |-> web, plain |-> plain]
        asked == Append(chat_history, [message |-> user_input, is_user |-> TRUE,
                                       key |-> <<"user", Len(chat_history)>>])
        answered(response) ==
            Append(asked, [message |-> response, is_user |-> FALSE,
                           key |-> <<"ai", Len(asked)>>])
    IN  /\ Len(chat_history) + 2 <= MaxMessages
        /\ IF user_input = <<>>
           THEN /\ UNCHANGED chat_history
                /\ ret' = [fn |-> "chat_interface", args |-> args,
                           out |-> [kind |-> "idle", calls |-> <<>>]]
           ELSE IF ~API_ENABLED
           THEN /\ chat_history' = answered(get_fallback_response(user_input))
                /\ ret' = [fn |-> "chat_interface", args |-> args,
                           out |-> [kind |-> "return", calls |-> <<>>]]
           ELSE IF nifty = "raise" \/ gold = "raise"
           THEN /\ chat_history' = asked
                /\ ret' = [fn |-> "chat_interface", args |-> args,
                           out |-> [kind |-> "raise", calls |-> <<>>]]
           ELSE LET prompt == Prompt(user_input, nifty, gold)
                    response == IF WantsWebSearch(user_input)
                                THEN generate_with_web_search(prompt, web, plain)
                                ELSE generate(prompt, plain)
                IN  /\ chat_history' = answered(response)
                    /\ ret' = [fn |-> "chat_interface", args |-> args,
                               out |-> [kind |-> "return",
                                        calls |-> ModelCalls(user_input, web)]]
        /\ UNCHANGED <<session, today, feeds, API_ENABLED>>

\* A session started with or without the key.
InitChat == \E key_found \in BOOLEAN : Start(key_found)

NextChat ==
    \E user_input \in UserInputs, nifty \in Histories, gold \in Histories,
       web \in ModelOutcomes, plain \in ModelOutcomes :
        Chat(user_input, nifty, gold, web, plain)

SpecChat == InitChat /\ [][NextChat]_vars

(***************************************************************************)
(* Properties of the chat (SpecChat).                                      *)
(***************************************************************************)

\* C23: in every state the chat history alternates user message and
\* advisor reply starting with a user message, every user message has its
\* reply after it, and no two messages have the same key.
ChatHistoryAlternates ==
    /\ \A i \in 1..Len(chat_history) : chat_history[i].is_user = (i % 2 = 1)
    /\ Len(chat_history) % 2 = 0
    /\ \A i, j \in 1..Len(chat_history) :
           chat_history[i].key = chat_history[j].key => i = j

\* The last message of the history.
LastReply == chat_history[Len(chat_history)]

\* C24: a chat step that gets to the generation returns with a reply: with
\* the API disabled the reply is the canned response and the model is not
\* called; a web-search call that raises is followed by one plain call for
\* the same prompt whose text is the reply; a plain call that raises makes
\* the reply the error string.
GenerationNeverRaises ==
    (ret.fn = "chat_interface" /\ ret.args.user_input # <<>>) =>
        LET a == ret.args
            prompt == Prompt(a.user_input, a.nifty, a.gold)
            plain_result == IF a.plain = "raise" THEN GeminiError
                            ELSE [kind |-> "text", prompt |-> prompt, tools |-> FALSE]
        IN  IF ~API_ENABLED
            THEN /\ ret.out.kind = "return"
                 /\ ret.out.calls = <<>>
                 /\ ~LastReply.is_user
                 /\ LastReply.message = get_fallback_response(a.user_input)
            ELSE (a.nifty # "raise" /\ a.gold # "raise") =>
                 /\ ret.out.kind = "return"
                 /\ ~LastReply.is_user
                 /\ LastReply.message.kind \in {"text", "error"}
                 /\ (WantsWebSearch(a.user_input) /\ a.web = "raise") =>
                        /\ ret.out.calls = <<"web_search", "plain">>
                        /\ LastReply.message = plain_result
                 /\ (WantsWebSearch(a.user_input) /\ a.web = "text") =>
                        LastReply.message = [kind |-> "text", prompt |-> prompt, tools |-> TRUE]
                 /\ ~WantsWebSearch(a.user_input) =>
                        /\ ret.out.calls = <<"plain">>
                        /\ LastReply.message = plain_result

\* A question with a web keyword was answered by the plain generation
\* after the web-search call raised.
WebSearchFellBack ==
    /\ API_ENABLED
    /\ ret.fn = "chat_interface"
    /\ ret.out.calls = <<"web_search", "plain">>
    /\ ret.args.plain = "text"
    /\ Len(chat_history) = 2
    /\ chat_history[2].message.kind = "text"
    /\ ~chat_history[2].message.tools

(***************************************************************************)
(* Properties of the two calculators (SpecLearning).                       *)
(***************************************************************************)

\* C26: whenever one of the two calculators evaluates its formula, the
\* monthly rate is above 0 and (1 + monthly_rate)**months - 1 is above 0,
\* and the formula returns a value: no division by zero.
CalculatorsNeverDivideByZero ==
    ret.fn \in {"sip_calculator", "emi_calculator"} =>
        /\ MonthlyRate(ret.args.rate) > 0
        /\ GrowthMinusOne(ret.args.rate, ret.args.years) > 0
        /\ ret.out.kind = "return"

\* The EMI of the smallest loan at the lowest rate over the shortest tenure
\* was computed.
SmallestLoanComputed ==
    /\ ret.fn = "emi_calculator"
    /\ ret.args = [rate |-> 1, years |-> 1, amount |-> 1000]
    /\ ret.out.kind = "return"

====
